---- MODULE Spec2Model ----
(***************************************************************************)
(* A model of the NEO database: the NearEarthObject and CloseApproach      *)
(* records (models.py), the NEODatabase constructor that builds the two    *)
(* designation tries and links the records, its three read operations     *)
(* (database.py), and the filter helpers (filters.py).                     *)
(*                                                                         *)
(* Python objects are referred to by their position in the input           *)
(* collections (a NEO is an index into neos, a close approach an index     *)
(* into approaches).  A trie (nested dicts) is a function from key paths   *)
(* to the value stored under that path; the terminal key '$' is an         *)
(* ordinary key of the same dict, as in the code.                          *)
(***************************************************************************)
EXTENDS Integers, Sequences, FiniteSets, TLC

VARIABLES
    neos,            \* self._neos: sequence of NearEarthObject records
    approaches,      \* self._approaches: sequence of CloseApproach records
    neo_trie,        \* self.neo_trie
    cad_trie,        \* self.cad_trie
    named_neo_list,  \* self.named_neo_list: sequence of NEO indices
    pc,              \* position of the constructor: "cads", "neos", "done", "raised"
    i,               \* index of the next element of the running constructor loop
    call             \* the last call of a read operation / limit, with its result

vars == <<neos, approaches, neo_trie, cad_trie, named_neo_list, pc, i, call>>

-----------------------------------------------------------------------------
(* Bounds of the model *)

MaxNeos == 2
MaxCads == 2
MaxLen == 2

\* Characters of designations; "$" is the character the tries use as terminal key.
Chars == {"1", "2", "$"}

-----------------------------------------------------------------------------
(* Python values *)

None == [kind |-> "None"]
Str(s) == [kind |-> "str", s |-> s]
Val(x) == [kind |-> "val", v |-> x]
Dict == [kind |-> "dict"]
List(items) == [kind |-> "list", items |-> items]
NeoRef(n) == [kind |-> "neo", id |-> n]
Raised(e) == [kind |-> "raised", exc |-> e]

NaN == [nan |-> TRUE, v |-> 0]
Float(x) == [nan |-> FALSE, v |-> x]

RECURSIVE SeqsUpTo(_, _)
\* All sequences over S of length at most n.
SeqsUpTo(S, n) ==
    IF n = 0 THEN {<<>>}
    ELSE LET shorter == SeqsUpTo(S, n - 1)
         IN  shorter \cup {Append(s, x) : s \in shorter, x \in S}

Range(s) == {s[k] : k \in DOMAIN s}

-----------------------------------------------------------------------------
(* models.py *)

\* NearEarthObject.__init__
NearEarthObject(designation, name, diameter, hazardous) ==
    [designation |-> designation,
     name        |-> IF name # Str("") THEN name ELSE None,
     diameter    |-> IF diameter # Str("") THEN Float(diameter.v) ELSE NaN,
     hazardous   |-> IF hazardous = Str("Y") THEN TRUE ELSE FALSE,
     approaches  |-> <<>>]

\* CloseApproach.__init__ ; time is the datetime cd_to_datetime returns
CloseApproach(designation, time, distance, velocity) ==
    [designation |-> designation,
     time        |-> time,
     distance    |-> distance,
     velocity    |-> velocity,
     neo         |-> None]

-----------------------------------------------------------------------------
(* The tries of database.py *)

EmptyTrie == [p \in {<<>>} |-> Dict]

IsPrefix(p, q) == Len(p) <= Len(q) /\ SubSeq(q, 1, Len(p)) = p

\* node[key] = value, for the dict at path p: the old value under the key, with
\* everything below it, is replaced.
SetItem(t, p, key, value) ==
    LET q == Append(p, key)
        keep == {r \in DOMAIN t : ~IsPrefix(q, r)}
    IN  [r \in keep \cup {q} |-> IF r = q THEN value ELSE t[r]]

\* `key in node` for the node at path p, where node is a dict or a list of
\* close approaches (a str never equals a CloseApproach).  Not defined for a
\* NearEarthObject, which is not iterable.
Contains(t, p, key) ==
    IF t[p].kind = "dict" THEN Append(p, key) \in DOMAIN t ELSE FALSE

RECURSIVE InsertPath(_, _, _)
\* for ch in designation: if ch not in node: node[ch] = {} ; node = node[ch]
\* Yields the trie, the path of the node reached and whether a TypeError was raised.
InsertPath(t, p, s) ==
    IF s = <<>> THEN [trie |-> t, node |-> p, raised |-> FALSE]
    ELSE LET ch == Head(s)
             q == Append(p, ch)
         IN  IF t[p].kind = "neo"
             THEN [trie |-> t, node |-> p, raised |-> TRUE]   \* `in` on a NEO
             ELSE IF Contains(t, p, ch) THEN InsertPath(t, q, Tail(s))
             ELSE IF t[p].kind = "dict"
                  THEN InsertPath(SetItem(t, p, ch, Dict), q, Tail(s))
                  ELSE [trie |-> t, node |-> p, raised |-> TRUE]  \* list[str] = {}

RECURSIVE WalkPath(_, _, _)
\* for ch in designation: if ch in node: node = node[ch]
\* A character that is not a key of the current node is passed over.
WalkPath(t, p, s) ==
    IF s = <<>> THEN [node |-> p, raised |-> FALSE]
    ELSE IF t[p].kind = "neo" THEN [node |-> p, raised |-> TRUE]
    ELSE IF Contains(t, p, Head(s)) THEN WalkPath(t, Append(p, Head(s)), Tail(s))
    ELSE WalkPath(t, p, Tail(s))

-----------------------------------------------------------------------------
(* NEODatabase.__init__ *)

\* One iteration of the loop over the close approaches: file approach c in cad_trie.
CadTrieInsert(t, c) ==
    LET w == InsertPath(t, <<>>, approaches[c].designation)
        p == w.node
        q == Append(p, "$")
    IN  IF w.raised THEN [trie |-> w.trie, raised |-> TRUE]
        ELSE IF Contains(w.trie, p, "$")
             THEN IF w.trie[q].kind = "list"
                  THEN [trie |-> [w.trie EXCEPT ![q] = List(Append(@.items, c))],
                        raised |-> FALSE]
                  ELSE [trie |-> w.trie, raised |-> TRUE]    \* dict has no append
             ELSE IF w.trie[p].kind = "dict"
                  THEN [trie |-> SetItem(w.trie, p, "$", List(<<c>>)), raised |-> FALSE]
                  ELSE [trie |-> w.trie, raised |-> TRUE]    \* list['$'] = [cad]

BuildCadTrie ==
    /\ pc = "cads"
    /\ i <= Len(approaches)
    /\ LET r == CadTrieInsert(cad_trie, i)
       IN  /\ cad_trie' = r.trie
           /\ pc' = IF r.raised THEN "raised"
                    ELSE IF i = Len(approaches)
                         THEN (IF neos = <<>> THEN "done" ELSE "neos")
                         ELSE "cads"
           /\ i' = IF r.raised THEN i ELSE IF i = Len(approaches) THEN 1 ELSE i + 1
    /\ UNCHANGED <<neos, approaches, neo_trie, named_neo_list, call>>

\* The close approaches the walk of cad_trie finds for a designation:
\* cad_node['$'] if '$' in cad_node, a list or (after a '$' character) a dict.
FoundApproaches(t, designation) ==
    LET w == WalkPath(t, <<>>, designation)
    IN  IF Contains(t, w.node, "$") THEN t[Append(w.node, "$")] ELSE None

\* neo.approaches.extend(cad_node['$']) ; for cad in cad_node['$']: cad.neo = neo
LinkedNeos(n, found) ==
    [neos EXCEPT ![n].approaches = @ \o found.items]

LinkedApproaches(n, found) ==
    [c \in DOMAIN approaches |->
        IF c \in Range(found.items)
        THEN [approaches[c] EXCEPT !.neo = NeoRef(n)]
        ELSE approaches[c]]

\* node = self.neo_trie ; ... ; node['$'] = neo
NeoTrieInsert(t, n) ==
    LET w == InsertPath(t, <<>>, neos[n].designation)
    IN  IF w.raised \/ w.trie[w.node].kind # "dict"
        THEN [trie |-> w.trie, raised |-> TRUE]
        ELSE [trie |-> SetItem(w.trie, w.node, "$", NeoRef(n)), raised |-> FALSE]

\* One iteration of the loop over the NEOs.
LinkNeo ==
    /\ pc = "neos"
    /\ i <= Len(neos)
    /\ named_neo_list' = IF neos[i].name # Str("")
                         THEN Append(named_neo_list, i) ELSE named_neo_list
    /\ LET found == FoundApproaches(cad_trie, neos[i].designation)
           ins == NeoTrieInsert(neo_trie, i)
       IN  IF found.kind = "dict"
           THEN \* extend() takes the keys of the dict; a key has no attribute neo
                /\ pc' = "raised"
                /\ UNCHANGED <<neos, approaches, neo_trie, i>>
           ELSE /\ neos' = IF found.kind = "list" THEN LinkedNeos(i, found) ELSE neos
                /\ approaches' = IF found.kind = "list"
                                 THEN LinkedApproaches(i, found) ELSE approaches
                /\ neo_trie' = ins.trie
                /\ pc' = IF ins.raised THEN "raised"
                         ELSE IF i = Len(neos) THEN "done" ELSE "neos"
                /\ i' = IF ins.raised \/ i = Len(neos) THEN i ELSE i + 1
    /\ UNCHANGED <<cad_trie, call>>

-----------------------------------------------------------------------------
(* NEODatabase.get_neo_by_designation *)

\* return node['$'] if '$' in node else None
get_neo_by_designation(designation) ==
    LET w == WalkPath(neo_trie, <<>>, designation)
    IN  IF w.raised \/ neo_trie[w.node].kind = "neo" THEN Raised("TypeError")
        ELSE IF Contains(neo_trie, w.node, "$") THEN neo_trie[Append(w.node, "$")]
        ELSE None

NoCall == [op |-> "none"]

Designations == SeqsUpTo(Chars, MaxLen) \ {<<>>}

\* The designations the lookups are tried with: a designation or one with an
\* extra character.
Queries == SeqsUpTo(Chars, MaxLen + 1) \ {<<>>}

\* A variant of the lookup that walks the trie the way the constructor fills
\* it, creating the nodes it does not find; C13_ReadOnly must tell it apart.
GetNeoByDesignationInserting(designation) ==
    /\ pc = "done"
    /\ call = NoCall
    /\ call' = [op |-> "get_neo_by_designation", arg |-> designation,
                ret |-> get_neo_by_designation(designation)]
    /\ neo_trie' = InsertPath(neo_trie, <<>>, designation).trie
    /\ UNCHANGED <<neos, approaches, cad_trie, named_neo_list, pc, i>>

GetNeoByDesignation(designation) ==
    /\ pc = "done"
    /\ call = NoCall
    /\ call' = [op |-> "get_neo_by_designation", arg |-> designation,
                ret |-> get_neo_by_designation(designation)]
    /\ UNCHANGED <<neos, approaches, neo_trie, cad_trie, named_neo_list, pc, i>>

-----------------------------------------------------------------------------
(* NEODatabase.get_neo_by_name *)

RECURSIVE ScanNamesFirst(_, _, _)
\* A variant of the scan that keeps the first match instead of the last
\* (the loop left at the first hit); C6_LastNamed must tell it apart.
ScanNamesFirst(list, name, return_neo) ==
    IF list = <<>> THEN return_neo
    ELSE IF neos[Head(list)].name = name THEN NeoRef(Head(list))
    ELSE ScanNamesFirst(Tail(list), name, return_neo)

RECURSIVE ScanNames(_, _, _)
\* for neo in self.named_neo_list: if neo.name == name: return_neo = neo
ScanNames(list, name, return_neo) ==
    IF list = <<>> THEN return_neo
    ELSE ScanNames(Tail(list), name,
                   IF neos[Head(list)].name = name THEN NeoRef(Head(list))
                   ELSE return_neo)

get_neo_by_name(name) == ScanNames(named_neo_list, name, None)

GetNeoByName(name) ==
    /\ pc = "done"
    /\ call = NoCall
    /\ call' = [op |-> "get_neo_by_name", arg |-> name, ret |-> get_neo_by_name(name)]
    /\ UNCHANGED <<neos, approaches, neo_trie, cad_trie, named_neo_list, pc, i>>

\* The caller takes the value a read operation returned; the database is idle again.
Return ==
    /\ pc = "done"
    /\ call # NoCall
    /\ call' = NoCall
    /\ UNCHANGED <<neos, approaches, neo_trie, cad_trie, named_neo_list, pc, i>>

-----------------------------------------------------------------------------
(* filters.py *)

\* The comparators of the operator module, on numbers, dates and booleans.
Compare(op, a, b) ==
    CASE op = "eq" -> a = b
      [] op = "ge" -> a >= b
      [] op = "le" -> a <= b

\* The same on floats: every comparison with not-a-number is false.
CompareFloat(op, a, b) ==
    IF a.nan \/ b.nan THEN FALSE ELSE Compare(op, a.v, b.v)

neo_attributes == {"diameter", "hazardous"}

\* A variant of valid_attribute without the .date() truncation: the approach's
\* date-time is compared with midnight of the date given; C7_FilterAnd must
\* tell it apart.
valid_attribute_datetime(c, op, value, attribute) ==
    LET a == approaches[c]
    IN  IF attribute \in neo_attributes
        THEN IF a.neo = None THEN Raised("AttributeError")
             ELSE IF attribute = "hazardous"
                  THEN Val(Compare(op, neos[a.neo.id].hazardous, value))
                  ELSE Val(CompareFloat(op, neos[a.neo.id].diameter, Float(value)))
        ELSE IF attribute = "time"
             THEN Val(Compare(op, 2 * a.time.date + a.time.tod, 2 * value))
        ELSE IF attribute = "distance" THEN Val(Compare(op, a.distance, value))
        ELSE Val(Compare(op, a.velocity, value))

\* valid_attribute(approach, op, value, attribute), for the approach at index c.
\* getattr on None (an approach without a NEO) raises AttributeError.
valid_attribute(c, op, value, attribute) ==
    LET a == approaches[c]
    IN  IF attribute \in neo_attributes
        THEN IF a.neo = None THEN Raised("AttributeError")
             ELSE IF attribute = "hazardous"
                  THEN Val(Compare(op, neos[a.neo.id].hazardous, value))
                  ELSE Val(CompareFloat(op, neos[a.neo.id].diameter, Float(value)))
        ELSE IF attribute = "time" THEN Val(Compare(op, a.time.date, value))
        ELSE IF attribute = "distance" THEN Val(Compare(op, a.distance, value))
        ELSE Val(Compare(op, a.velocity, value))

FilterKeys == {"date", "start_date", "end_date", "distance_min", "distance_max",
               "velocity_min", "velocity_max", "diameter_min", "diameter_max",
               "hazardous"}

\* create_filters: the dictionary of the ten arguments, None for one not given.
\* given is a function from the names of the arguments given to their values.
create_filters(given) ==
    [k \in FilterKeys |-> IF k \in DOMAIN given THEN Val(given[k]) ELSE None]

DefaultLimit == 10

\* limit(iterator, n): itertools.islice(iterator, n) with n replaced by 10 when
\* it is 0 or None.
limit(iterator, n) ==
    LET m == IF n = None \/ n = Val(0) THEN DefaultLimit ELSE n.v
    IN  SubSeq(iterator, 1, IF m < Len(iterator) THEN m ELSE Len(iterator))

-----------------------------------------------------------------------------
(* NEODatabase.query *)

\* The ten tests of the loop body, in the order of the code.
Criteria == <<
    [key |-> "date",         op |-> "eq", attribute |-> "time"],
    [key |-> "start_date",   op |-> "ge", attribute |-> "time"],
    [key |-> "end_date",     op |-> "le", attribute |-> "time"],
    [key |-> "distance_min", op |-> "ge", attribute |-> "distance"],
    [key |-> "distance_max", op |-> "le", attribute |-> "distance"],
    [key |-> "velocity_min", op |-> "ge", attribute |-> "velocity"],
    [key |-> "velocity_max", op |-> "le", attribute |-> "velocity"],
    [key |-> "diameter_min", op |-> "ge", attribute |-> "diameter"],
    [key |-> "diameter_max", op |-> "le", attribute |-> "diameter"],
    [key |-> "hazardous",    op |-> "eq", attribute |-> "hazardous"] >>

RECURSIVE FitsCriteriaTruthy(_, _, _, _)
\* A variant of the tests that takes a criterion for given by its truth value
\* (`if filters[key] and not ...`), so that hazardous=False counts as absent;
\* C12_HazardousTriState must tell it apart.
FitsCriteriaTruthy(filters, c, k, fits_criteria) ==
    IF k > Len(Criteria) THEN Val(fits_criteria)
    ELSE LET cr == Criteria[k]
         IN  IF cr.key \notin DOMAIN filters THEN Raised("KeyError")
             ELSE IF \/ filters[cr.key] = None
                     \/ (cr.key = "hazardous" /\ filters[cr.key] = Val(FALSE))
                  THEN FitsCriteriaTruthy(filters, c, k + 1, fits_criteria)
             ELSE LET v == valid_attribute(c, cr.op, filters[cr.key].v, cr.attribute)
                  IN  IF v.kind = "raised" THEN v
                      ELSE FitsCriteriaTruthy(filters, c, k + 1, fits_criteria /\ v.v)

RECURSIVE FitsCriteria(_, _, _, _)
\* The tests from the k-th on for the approach at index c: the final value of
\* fits_criteria, or the exception raised by filters[key] (KeyError) or by
\* valid_attribute (AttributeError).  No test is skipped once one has failed.
FitsCriteria(filters, c, k, fits_criteria) ==
    IF k > Len(Criteria) THEN Val(fits_criteria)
    ELSE LET cr == Criteria[k]
         IN  IF cr.key \notin DOMAIN filters THEN Raised("KeyError")
             ELSE IF filters[cr.key] = None
                  THEN FitsCriteria(filters, c, k + 1, fits_criteria)
             ELSE LET v == valid_attribute(c, cr.op, filters[cr.key].v, cr.attribute)
                  IN  IF v.kind = "raised" THEN v
                      ELSE FitsCriteria(filters, c, k + 1, fits_criteria /\ v.v)

RECURSIVE QueryFrom(_, _, _)
\* The generator run to its end from the approach at index c on: the approaches
\* yielded so far and the exception that ended it, if one did.
QueryFrom(filters, c, yielded) ==
    IF c > Len(approaches) THEN [yielded |-> yielded, raised |-> None]
    ELSE LET f == FitsCriteria(filters, c, 1, TRUE)
         IN  IF f.kind = "raised" THEN [yielded |-> yielded, raised |-> f]
             ELSE QueryFrom(filters, c + 1,
                            IF f.v THEN Append(yielded, c) ELSE yielded)

query(filters) == QueryFrom(filters, 1, <<>>)

\* The default of the parameter: query() is query({}).
EmptyFilters == [k \in {} |-> None]

Query(filters) ==
    /\ pc = "done"
    /\ call = NoCall
    /\ call' = [op |-> "query", arg |-> filters, ret |-> query(filters)]
    /\ UNCHANGED <<neos, approaches, neo_trie, cad_trie, named_neo_list, pc, i>>

\* limit applied to the iterator and the n of the pending call.
Limit ==
    /\ call.op = "limit_args"
    /\ call' = [op |-> "limit", iterator |-> call.iterator, n |-> call.n,
                ret |-> limit(call.iterator, call.n)]
    /\ UNCHANGED <<neos, approaches, neo_trie, cad_trie, named_neo_list, pc, i>>

-----------------------------------------------------------------------------
(* query as the generator it is: the call returns a stream, and each next()  *)
(* of the consumer runs the loop up to the next yield.                     *)

RECURSIVE NextYield(_, _)
\* The loop run from the approach at index c up to the next yield, the
\* exception that ends the generator, or its end.
NextYield(filters, c) ==
    IF c > Len(approaches) THEN [kind |-> "stop"]
    ELSE LET f == FitsCriteria(filters, c, 1, TRUE)
         IN  IF f.kind = "raised" THEN f
             ELSE IF f.v THEN [kind |-> "yield", c |-> c]
             ELSE NextYield(filters, c + 1)

\* query(filters): no line of the body has run yet.
QueryOpen(filters) ==
    /\ pc = "done"
    /\ call = NoCall
    /\ call' = [op |-> "query_stream", arg |-> filters, pos |-> 1, open |-> TRUE,
                ret |-> [yielded |-> <<>>, raised |-> None]]
    /\ UNCHANGED <<neos, approaches, neo_trie, cad_trie, named_neo_list, pc, i>>

\* next() on the stream.  The consumer may stop asking at any point (Return).
QueryResume ==
    /\ pc = "done"
    /\ call.op = "query_stream"
    /\ call.open
    /\ LET y == NextYield(call.arg, call.pos)
       IN  call' = IF y.kind = "yield"
                   THEN [call EXCEPT !.pos = y.c + 1,
                                     !.ret.yielded = Append(@, y.c)]
                   ELSE IF y.kind = "raised"
                   THEN [call EXCEPT !.open = FALSE, !.ret.raised = y]
                   ELSE [call EXCEPT !.open = FALSE]
    /\ UNCHANGED <<neos, approaches, neo_trie, cad_trie, named_neo_list, pc, i>>

\* The value the read operation of the last call returns for the same argument
\* now.
ReturnedNow ==
    CASE call.op = "get_neo_by_designation" -> get_neo_by_designation(call.arg)
      [] call.op = "get_neo_by_name"        -> get_neo_by_name(call.arg)
      [] call.op = "query"                  -> query(call.arg)

\* The last call made once more, with the same argument.
Again ==
    /\ pc = "done"
    /\ call.op \in {"get_neo_by_designation", "get_neo_by_name", "query"}
    /\ call' = [call EXCEPT !.ret = ReturnedNow]
    /\ UNCHANGED <<neos, approaches, neo_trie, cad_trie, named_neo_list, pc, i>>

-----------------------------------------------------------------------------
(* The construction of a database from unlinked records, and lookups by      *)
(* designation.                                                            *)

Unique(s) == \A a, b \in DOMAIN s : a # b => s[a] # s[b]

DefaultTime == [date |-> 1, tod |-> 0]

Start(ns, as) ==
    /\ neos = ns
    /\ approaches = as
    /\ neo_trie = EmptyTrie
    /\ cad_trie = EmptyTrie
    /\ named_neo_list = <<>>
    /\ pc = IF as # <<>> THEN "cads" ELSE IF ns # <<>> THEN "neos" ELSE "done"
    /\ i = 1
    /\ call = NoCall

Init ==
    \E ds \in {s \in SeqsUpTo(Designations, MaxNeos) : Unique(s)},
       cs \in SeqsUpTo(Designations, MaxCads) :
        Start([n \in DOMAIN ds |-> NearEarthObject(ds[n], Str(""), Str(""), Str("N"))],
              [c \in DOMAIN cs |-> CloseApproach(cs[c], DefaultTime, 1, 1)])

Next ==
    \/ BuildCadTrie
    \/ LinkNeo
    \/ \E d \in Queries : GetNeoByDesignation(d)
    \/ Return

Spec == Init /\ [][Next]_vars

-----------------------------------------------------------------------------
(* Lookups by name: NEOs with and without a name, the same name twice.     *)

\* The n-th NEO of these databases has the designation 1, 11, 111, ...
Ones(n) == [k \in 1..n |-> "1"]

\* The name column as the loader passes it: '' for a NEO without a name.
RawNames == {Str(""), Str("A"), Str("B")}

\* The names looked up: absent, empty, a name in use or not.
NameArgs == {None, Str(""), Str("A"), Str("B"), Str("C")}

InitName ==
    \E names \in SeqsUpTo(RawNames, MaxNeos), cs \in SeqsUpTo({Ones(1)}, 1) :
        Start([n \in DOMAIN names |-> NearEarthObject(Ones(n), names[n], Str(""), Str("N"))],
              [c \in DOMAIN cs |-> CloseApproach(cs[c], DefaultTime, 1, 1)])

NextName ==
    \/ BuildCadTrie
    \/ LinkNeo
    \/ \E name \in NameArgs : GetNeoByName(name)
    \/ Return

SpecName == InitName /\ [][NextName]_vars

-----------------------------------------------------------------------------
(* limit on iterators shorter and longer than the default of 10.           *)

MaxIter == 12

LimitArgs == {None} \cup {Val(n) : n \in 0..MaxIter}

InitLimit ==
    \E len \in 0..MaxIter, n \in LimitArgs :
        /\ neos = <<>>
        /\ approaches = <<>>
        /\ neo_trie = EmptyTrie
        /\ cad_trie = EmptyTrie
        /\ named_neo_list = <<>>
        /\ pc = "done"
        /\ i = 1
        /\ call = [op |-> "limit_args", iterator |-> [k \in 1..len |-> k], n |-> n]

NextLimit == Limit

SpecLimit == InitLimit /\ [][NextLimit]_vars

-----------------------------------------------------------------------------
(* Queries over a small data set: four NEOs of unknown, small, medium and  *)
(* large diameter, and close approaches of these NEOs or of an object the  *)
(* data set has no NEO for.                                                *)

MaxActive == 2

\* The rows of the NEO file: designation, name, diameter, pha.
NeoRows == <<
    [pdes |-> <<"1">>, name |-> Str("A"), diameter |-> Str(""), pha |-> Str("N")],
    [pdes |-> <<"2">>, name |-> Str(""),  diameter |-> Val(1),  pha |-> Str("Y")],
    [pdes |-> <<"3">>, name |-> Str("B"), diameter |-> Val(2),  pha |-> Str("")],
    [pdes |-> <<"4">>, name |-> Str(""),  diameter |-> Val(3),  pha |-> Str("Y")] >>

\* The designations of the close approaches; there is no NEO "5".
CadDesignations == {<<"1">>, <<"2">>, <<"3">>, <<"4">>, <<"5">>}

\* Time (date and time of day), distance and velocity of the close approaches.
CadMeasures == {
    [time |-> [date |-> 1, tod |-> 0], distance |-> 2, velocity |-> 3],
    [time |-> [date |-> 2, tod |-> 1], distance |-> 3, velocity |-> 1],
    [time |-> [date |-> 3, tod |-> 0], distance |-> 1, velocity |-> 2] }

\* The value every date, distance, velocity and diameter criterion is given.
Thresholds == {2}

\* The arguments given to create_filters: at most MaxActive of them, hazardous
\* a boolean and every other one a threshold.
Givens ==
    {[k \in S |-> IF k = "hazardous" THEN hz ELSE t] :
        S \in {T \in SUBSET FilterKeys : Cardinality(T) <= MaxActive},
        hz \in BOOLEAN, t \in Thresholds}

FilterArgs == {create_filters(g) : g \in Givens} \cup {EmptyFilters}

InitQuery ==
    \E ds \in SeqsUpTo(CadDesignations, MaxCads) :
      \E ms \in [DOMAIN ds -> CadMeasures] :
        Start([n \in DOMAIN NeoRows |->
                 NearEarthObject(NeoRows[n].pdes, NeoRows[n].name,
                                 NeoRows[n].diameter, NeoRows[n].pha)],
              [c \in DOMAIN ds |->
                 CloseApproach(ds[c], ms[c].time, ms[c].distance, ms[c].velocity)])

NextQuery ==
    \/ BuildCadTrie
    \/ LinkNeo
    \/ \E filters \in FilterArgs : Query(filters)
    \/ Return

SpecQuery == InitQuery /\ [][NextQuery]_vars

-----------------------------------------------------------------------------
(* Properties *)

\* The indices of a sequence that pass a test, in order.
IndicesWhere(s, Test(_)) ==
    LET F[k \in 0..Len(s)] ==
            IF k = 0 THEN <<>>
            ELSE IF Test(k) THEN Append(F[k - 1], k) ELSE F[k - 1]
    IN  F[Len(s)]

\* A designation without the character the tries use as terminal key.
Plain(d) == "$" \notin Range(d)

PlainInputs ==
    /\ \A n \in DOMAIN neos : Plain(neos[n].designation)
    /\ \A c \in DOMAIN approaches : Plain(approaches[c].designation)

NeosDesignated(d) == {n \in DOMAIN neos : neos[n].designation = d}

Looked(op) == pc = "done" /\ call.op = op

\* C1: get_neo_by_designation matches exactly: it returns the NEO whose
\* designation equals the query character for character, and None whenever no
\* NEO has that designation, also when the query only contains a known
\* designation among extra characters.  Stated for designations and queries
\* without the terminal character '$', where the claim already fails.
C1_ExactMatch ==
    (Looked("get_neo_by_designation") /\ PlainInputs /\ Plain(call.arg)) =>
        /\ \A n \in NeosDesignated(call.arg) : call.ret = NeoRef(n)
        /\ NeosDesignated(call.arg) = {} => call.ret = None

\* C2: round-trip linking: after construction, every close approach whose
\* designation equals a NEO's designation refers to that NEO and is in the
\* approaches of exactly that NEO and of no other.  Stated for designations
\* without the terminal character '$', where the claim already fails.
C2_RoundTrip ==
    (pc = "done" /\ PlainInputs) =>
        \A c \in DOMAIN approaches : \A n \in NeosDesignated(approaches[c].designation) :
            /\ approaches[c].neo = NeoRef(n)
            /\ \A m \in DOMAIN neos : (c \in Range(neos[m].approaches)) <=> (m = n)

\* C3: after construction, the approaches of every NEO are exactly the close
\* approaches of its designation, in input order, none of another designation
\* and none twice.  Stated for designations without the terminal character '$',
\* where the claim already fails.
C3_ApproachesExact ==
    (pc = "done" /\ PlainInputs) =>
        \A n \in DOMAIN neos :
            neos[n].approaches =
                IndicesWhere(approaches,
                             LAMBDA c : approaches[c].designation = neos[n].designation)

\* C4: index completeness: get_neo_by_designation of the designation of a NEO
\* of the database returns that NEO.
C4_IndexComplete ==
    Looked("get_neo_by_designation") =>
        \A n \in NeosDesignated(call.arg) : call.ret = NeoRef(n)

\* C5: name index selectivity: get_neo_by_name("") and get_neo_by_name(None)
\* return None for every database, also one with NEOs without a name.
C5_NameSelectivity ==
    (Looked("get_neo_by_name") /\ call.arg \in {None, Str("")}) => call.ret = None

NeosNamed(name) == {n \in DOMAIN neos : neos[n].name = name}

Max(S) == CHOOSE x \in S : \A y \in S : y <= x

\* C6: for a non-empty name, get_neo_by_name returns the last NEO of the input
\* order with exactly that name, and None when no NEO has it.
C6_LastNamed ==
    (Looked("get_neo_by_name") /\ call.arg.kind = "str" /\ call.arg # Str("")) =>
        call.ret = IF NeosNamed(call.arg) = {} THEN None
                   ELSE NeoRef(Max(NeosNamed(call.arg)))

\* C6 happens: two NEOs share a name, and the lookup of it returned the second.
C6_Witness ==
    /\ Looked("get_neo_by_name")
    /\ Cardinality(NeosNamed(call.arg)) = 2
    /\ call.arg = Str("A")
    /\ call.ret = NeoRef(2)

AllLinked == \A c \in DOMAIN approaches : approaches[c].neo # None

\* What a criterion with value v asks of the approach at index c.
Meets(c, key, v) ==
    LET a == approaches[c]
        neo == neos[a.neo.id]
    IN  CASE key = "date"         -> a.time.date = v
          [] key = "start_date"   -> a.time.date >= v
          [] key = "end_date"     -> a.time.date <= v
          [] key = "distance_min" -> a.distance >= v
          [] key = "distance_max" -> a.distance <= v
          [] key = "velocity_min" -> a.velocity >= v
          [] key = "velocity_max" -> a.velocity <= v
          [] key = "diameter_min" -> ~neo.diameter.nan /\ neo.diameter.v >= v
          [] key = "diameter_max" -> ~neo.diameter.nan /\ neo.diameter.v <= v
          [] key = "hazardous"    -> neo.hazardous = v

Active(filters) == {k \in DOMAIN filters : filters[k] # None}

MeetsAll(c, filters, keys) ==
    \A k \in Active(filters) \cap keys : Meets(c, k, filters[k].v)

Created(filters) == DOMAIN filters = FilterKeys

\* C7: filter AND semantics: with every close approach linked, query of a
\* filter set of create_filters yields exactly the close approaches that meet
\* every criterion given, in collection order and each once; dates are
\* compared by calendar date.
C7_FilterAnd ==
    (Looked("query") /\ Created(call.arg) /\ AllLinked) =>
        call.ret = [yielded |-> IndicesWhere(approaches,
                                    LAMBDA c : MeetsAll(c, call.arg, FilterKeys)),
                    raised  |-> None]

\* C7 happens: two criteria are active, one of them on the date, and of two
\* linked approaches the query kept the one later in the day and dropped the other.
C7_Witness ==
    /\ Looked("query") /\ Created(call.arg) /\ AllLinked
    /\ Cardinality(Active(call.arg)) = 2
    /\ "date" \in Active(call.arg)
    /\ Len(approaches) = 2
    /\ call.ret.yielded = <<2>>
    /\ approaches[2].time.tod # 0

\* C8: query() with no argument, that is with the empty filter set, yields
\* every close approach in input order and raises nothing.
C8_EmptyFilterSet ==
    (Looked("query") /\ call.arg = EmptyFilters) =>
        call.ret = [yielded |-> [c \in DOMAIN approaches |-> c], raised |-> None]

NeoKeys == {"diameter_min", "diameter_max", "hazardous"}

\* C9: unlinked-record safety: query never raises for a close approach
\* without a NEO; the approach is left out when a diameter or hazardous
\* criterion is active, and yielded when only criteria on the approach are
\* active and all of them are met.
C9_UnlinkedSafety ==
    (Looked("query") /\ Created(call.arg)) =>
        \A c \in DOMAIN approaches :
            approaches[c].neo = None =>
                /\ call.ret.raised = None
                /\ Active(call.arg) \cap NeoKeys # {} => c \notin Range(call.ret.yielded)
                /\ (/\ Active(call.arg) \cap NeoKeys = {}
                    /\ MeetsAll(c, call.arg, FilterKeys \ NeoKeys))
                       => c \in Range(call.ret.yielded)

\* C10: limit yields the first (at most) n values when n is positive, and
\* every value of the iterator when n is 0 or None.
C10_Limit ==
    call.op = "limit" =>
        call.ret = IF call.n = None \/ call.n = Val(0) THEN call.iterator
                   ELSE SubSeq(call.iterator, 1,
                               IF call.n.v < Len(call.iterator)
                               THEN call.n.v ELSE Len(call.iterator))

\* C11: after construction, every close approach whose designation equals no
\* NEO's designation keeps neo unset, and construction completes without an
\* error, also when that designation is a prefix or a subsequence of a NEO's.
\* Stated for designations without the terminal character '$', where the claim
\* already fails.
C11_UnmatchedUnlinked ==
    (pc \in {"done", "raised"} /\ PlainInputs) =>
        /\ pc = "done"
        /\ \A c \in DOMAIN approaches :
              NeosDesignated(approaches[c].designation) = {} => approaches[c].neo = None

\* The NEO the approach at index c is linked to is hazardous / is not.
LinkedHazard(c, flag) ==
    /\ approaches[c].neo # None
    /\ neos[approaches[c].neo.id].hazardous = flag

\* C12: the hazardous criterion is tri-state.  Given as True, query yields only
\* approaches of hazardous NEOs; given as False, only approaches of NEOs that
\* are not hazardous (False is a criterion, not absence); not given, the flag
\* has no part in the result.  With every approach linked the result is exactly
\* the approaches that meet the other criteria and, if given, have the flag.
C12_HazardousTriState ==
    (Looked("query") /\ Created(call.arg)) =>
        LET hazardous == call.arg["hazardous"]
            others == FilterKeys \ {"hazardous"}
        IN  /\ hazardous # None =>
                 \A c \in Range(call.ret.yielded) : LinkedHazard(c, hazardous.v)
            /\ AllLinked =>
                 call.ret.yielded =
                     IndicesWhere(approaches,
                         LAMBDA c : /\ MeetsAll(c, call.arg, others)
                                    /\ hazardous # None => LinkedHazard(c, hazardous.v))

\* C12 happens: the only approach is linked to the NEO whose pha column is ''
\* and query(hazardous=False) has yielded it.
C12_Witness ==
    /\ Looked("query") /\ Created(call.arg)
    /\ Active(call.arg) = {"hazardous"}
    /\ call.arg["hazardous"] = Val(FALSE)
    /\ Len(approaches) = 1
    /\ approaches[1].neo = NeoRef(3)
    /\ NeoRows[3].pha = Str("")
    /\ call.ret = [yielded |-> <<1>>, raised |-> None]

-----------------------------------------------------------------------------
(* Any sequence of read operations on a constructed database: lookups by   *)
(* designation and by name, queries run to the end or consumed in part or  *)
(* left unconsumed, and calls made again.                                   *)

\* The designations looked up: of a NEO, of no NEO, one with an extra character.
ReadDesignations == {<<"1">>, <<"5">>, <<"1", "2">>}

\* The filter sets queried: none, or one criterion.
ReadFilters == {f \in FilterArgs : Cardinality(Active(f)) <= 1}

NextRead ==
    \/ BuildCadTrie
    \/ LinkNeo
    \/ \E d \in ReadDesignations : GetNeoByDesignation(d)
    \/ \E name \in NameArgs : GetNeoByName(name)
    \/ \E filters \in ReadFilters : Query(filters)
    \/ \E filters \in ReadFilters : QueryOpen(filters)
    \/ QueryResume
    \/ Again
    \/ Return

SpecRead == InitQuery /\ [][NextRead]_vars

\* The linked graph and the indexes.
graph == <<neos, approaches, neo_trie, cad_trie, named_neo_list>>

\* C13: once construction has completed the linked graph is read-only: no
\* call of get_neo_by_designation, get_neo_by_name or query, the query
\* consumed in full or in part, changes the NEO and approach collections, an
\* approaches sequence, a neo reference or an index; hence a call made again
\* returns what it returned before.
C13_ReadOnly ==
    [][pc = "done" =>
         /\ pc' = "done"
         /\ graph' = graph
         /\ (/\ call # NoCall /\ call' # NoCall
             /\ call'.op = call.op /\ call'.arg = call.arg
             /\ call.op # "query_stream")
               => call'.ret = call.ret]_vars

\* C13 happens: a query was consumed in part (one approach taken, the stream
\* still open) on a database whose approaches are linked.
C13_Witness ==
    /\ pc = "done"
    /\ call.op = "query_stream"
    /\ call.open
    /\ Len(call.ret.yielded) = 1
    /\ Len(approaches) = 2
    /\ AllLinked

====
